---------------------------- MODULE Spec2Model ----------------------------
(***************************************************************************)
(* Job scheduling control surface of backend/app/schedulers/routes/        *)
(* scheduler.py: the five route handlers (get_all_jobs, start_job,         *)
(* pause_job, update_job, delete_job), the linear lookup find_job_by_id    *)
(* and the metadata writer manage_job_metadata, over                       *)
(*   - the scheduler's job list (the Engine), as scheduler.get_jobs()      *)
(*     returns it, and                                                     *)
(*   - the JobMetadata table (the Store).                                  *)
(* The handlers are coroutines of one event loop: each action is one        *)
(* handler running from one await to the next (or to its return, or to the *)
(* exception that leaves it).                                              *)
(***************************************************************************)
EXTENDS Integers, Sequences, FiniteSets, TLC

\* ------------------------------------------------------------------ bounds

\* Number of requests made, all of which may be in flight together.
MaxReqs == 2

\* Last instant followed, in seconds since bootstrap, and the longest the
\* clock moves in one step when nothing is due before.
MaxTime == 1200
TickStep == 600

\* Firings of one job followed.
MaxStarts == 2

\* Ids registered at bootstrap, and one id that never is.
BootJobs == {"scan-1", "agent_sync"}
GhostJobs == {"ghost"}
JobIds == BootJobs \cup GhostJobs

\* Intervals (minutes) jobs are registered with, and the values a caller
\* passes as time_interval (any int passes the route's validation).
BootIntervals == {10}
TimeIntervals == {-5, 0, 30, 45}

\* Minutes asked of update_job while firings are followed: the new interval
\* has to elapse before MaxTime.
FiringIntervals == {-5, 5}

VARIABLES
    jobs,          \* the scheduler's job list: what scheduler.get_jobs() returns
    metadata,      \* the rows of the JobMetadata table
    storeUp,       \* whether the database answers (session.execute / commit)
    lastToggle,    \* per id: the last successful start / pause command
    lastInterval,  \* per id: minutes of the last successful update (or boot)
    okOnly,        \* per id: whether every command ended on it fully succeeded
    unretried,     \* commands that raised in their Store step, not retried since
    inflight,      \* per request slot: the handler call made in it, the
                   \* await it is suspended at, its locals and its result
    clock,         \* the time, in seconds since bootstrap
    start_date,    \* per job id: first run time of its trigger
    next_run_time, \* per job id: when it is due next (NoTime: paused or absent)
    instances,     \* per job id: firings of it that are running
    starts,        \* per job id: firings of it started so far
    last_start,    \* per job id: when its latest firing started (NoTime: never)
    failed,        \* job ids whose latest finished firing raised
    skipped,       \* job ids a run of which was skipped
    stalled        \* the scheduler's evaluation of due jobs no longer returns

vars == <<jobs, metadata, storeUp, lastToggle, lastInterval, okOnly,
          unretried, inflight, clock, start_date, next_run_time, instances,
          starts, last_start, failed, skipped, stalled>>

\* The firing side of the scheduler.
firingVars == <<clock, start_date, next_run_time, instances, starts,
                last_start, failed, skipped, stalled>>

\* ------------------------------------------------------------- data model

\* Python's None, where a Job is expected / where a JobMetadata row is.
None == [id |-> "<None>", name |-> "", interval |-> 0, paused |-> FALSE]
NoRow == [job_id |-> "<None>", time_interval |-> 0, enabled |-> FALSE]

JobName(job_id) == "job " \o job_id

\* IntervalTrigger(minutes=m): the interval is kept as a timedelta, here in
\* seconds; a zero-length interval is replaced by one second.
IntervalTrigger(minutes) == IF minutes * 60 = 0 THEN 1 ELSE minutes * 60

\* A job of the scheduler. paused <=> its next_run_time is None.
Job(job_id, minutes, paused) ==
    [id |-> job_id, name |-> JobName(job_id),
     interval |-> IntervalTrigger(minutes), paused |-> paused]

\* A row of the JobMetadata table.
JobMetadata(job_id, minutes, enabled) ==
    [job_id |-> job_id, time_interval |-> minutes, enabled |-> enabled]

\* The handlers' return values, and an exception that leaves the handler.
Response(success, message) ==
    [raised |-> FALSE, success |-> success, message |-> message]
Raised(exc) == [raised |-> TRUE, success |-> FALSE, message |-> exc]

\* The job store lists jobs by next run time, paused jobs (no run time) last.
PausedLast(js) ==
    \A i, j \in 1..Len(js) : (i < j /\ js[i].paused) => js[j].paused

Ids(js) == {js[i].id : i \in 1..Len(js)}

RemoveAt(js, k) == [i \in 1..(Len(js) - 1) |-> IF i < k THEN js[i] ELSE js[i + 1]]
InsertAt(js, k, job) ==
    [i \in 1..(Len(js) + 1) |->
        IF i < k THEN js[i] ELSE IF i = k THEN job ELSE js[i - 1]]

Index(js, job_id) == CHOOSE i \in 1..Len(js) : js[i].id = job_id

\* The lists the store may hold after job's run time changed: job taken out
\* and put back where its new run time sorts (any place that keeps paused
\* jobs last; run times themselves are not modelled).
Resorted(js, job) ==
    LET rest == RemoveAt(js, Index(js, job.id))
    IN  {l \in {InsertAt(rest, k, job) : k \in 1..(Len(rest) + 1)} : PausedLast(l)}

\* The list with job replaced where it stands (its run time did not change).
Replaced(js, job) ==
    [i \in 1..Len(js) |-> IF js[i].id = job.id THEN job ELSE js[i]]

\* ------------------------------------------------------ scheduler (Engine)

\* scheduler.get_jobs()
get_jobs(js) == js

\* job.resume(): the next run time is computed from the trigger, which for an
\* interval trigger always exists; the job is scheduled again.
resume(js, job) == Resorted(js, [job EXCEPT !.paused = FALSE])

\* Variant of pause: pausing a job that is already paused starts it again.
pause_toggle(js, job) ==
    Resorted(js, [job EXCEPT !.paused = ~job.paused])

\* job.pause(): next_run_time := None. For a job already paused nothing moves.
pause(js, job) ==
    IF job.paused THEN {Replaced(js, job)}
    ELSE Resorted(js, [job EXCEPT !.paused = TRUE])

\* job.reschedule(trigger="interval", minutes=m): a new trigger, and the next
\* run time computed from it (so a paused job runs again).
reschedule(js, job, minutes) ==
    Resorted(js, [job EXCEPT !.interval = IntervalTrigger(minutes),
                             !.paused = FALSE])

\* Variant of remove_job: removes the first job of the list, whatever its id.
remove_job_head(js, job_id) == RemoveAt(js, 1)

\* scheduler.remove_job(job_id)
remove_job(js, job_id) == RemoveAt(js, Index(js, job_id))

\* ------------------------------------------------------------ find_job_by_id

\* Variant of find_job_by_id: after the loop it returns the loop variable (the
\* last job scanned) instead of None.
find_job_by_id_loop_variable(js, job_id) ==
    IF job_id \in Ids(js) THEN js[Index(js, job_id)]
    ELSE IF js = <<>> THEN None
    ELSE js[Len(js)]

\* Variant of find_job_by_id: the return None sits inside the loop, so only the
\* first job of the list is compared.
find_job_by_id_first_only(js, job_id) ==
    IF js = <<>> THEN None
    ELSE IF Head(js).id = job_id THEN Head(js)
    ELSE None

\* for job in scheduler.get_jobs(): the first job whose id is job_id, None
\* after the last one.
RECURSIVE find_job_by_id(_, _)
find_job_by_id(js, job_id) ==
    IF js = <<>> THEN None
    ELSE IF Head(js).id = job_id THEN Head(js)
    ELSE find_job_by_id(Tail(js), job_id)


\* ------------------------------------------------------- manage_job_metadata

\* Variant of select_first: the filter on job_id is lost and the first row of
\* the table is taken.
select_first_unfiltered(md, job_id) ==
    IF md = {} THEN NoRow ELSE CHOOSE r \in md : TRUE

\* select(JobMetadata).filter_by(job_id=job_id) ... .scalars().first()
select_first(md, job_id) ==
    LET rows == {r \in md : r.job_id = job_id}
    IN  IF rows = {} THEN NoRow ELSE CHOOSE r \in rows : TRUE

\* Variant of setattrs: the assignments are lost (never flushed to the row).
setattrs_lost(row, kwargs) == row

\* setattr(job_metadata, key, value) for every key of kwargs.
setattrs(row, kwargs) ==
    [k \in DOMAIN row |-> IF k \in DOMAIN kwargs THEN kwargs[k] ELSE row[k]]

\* ------------------------------------------------------------- the handlers

\* What a handler without an await leaves: the job list, the table, and what
\* it returns.
Outcome(js, md, result) ==
    [jobs |-> js, metadata |-> md, result |-> result]

start_job(js, md, job_id) ==
    LET job == find_job_by_id(get_jobs(js), job_id) IN
    IF job # None
    THEN {Outcome(l, md, Response(TRUE, "Job started successfully")) :
             l \in resume(js, job)}
    ELSE {Outcome(js, md, Response(FALSE, "Job not found"))}

pause_job(js, md, job_id) ==
    LET job == find_job_by_id(get_jobs(js), job_id) IN
    IF job # None
    THEN {Outcome(l, md, Response(TRUE, "Job paused successfully")) :
             l \in pause(js, job)}
    ELSE {Outcome(js, md, Response(FALSE, "Job not found"))}

\* ------------------------------------------------ the handlers, await by await
\* A call runs alone up to its next await on the session. find_job_by_id has
\* no suspension in it, so start_job and pause_job run whole; the others are
\* cut at session.execute and at session.commit.

\* The call has returned (or raised) result; its locals are gone.
Returned(req, result) ==
    [req EXCEPT !.pc = "done", !.result = result, !.row = NoRow, !.seen = <<>>]

Step(js, md, req) == [jobs |-> js, metadata |-> md, req |-> req]

\* start_job, from the call to its return.
start_job_call(js, md, req) ==
    {Step(o.jobs, o.metadata, Returned(req, o.result)) :
        o \in start_job(js, md, req.id)}

\* pause_job, from the call to its return.
pause_job_call(js, md, req) ==
    {Step(o.jobs, o.metadata, Returned(req, o.result)) :
        o \in pause_job(js, md, req.id)}

\* Variant of update_job_call: manage_job_metadata is awaited first and
\* job.reschedule is left for after it.
update_job_call_store_first(js, md, req) ==
    LET job == find_job_by_id(get_jobs(js), req.id) IN
    IF job # None
    THEN {Step(js, md, [req EXCEPT !.pc = "execute"])}
    ELSE {Step(js, md, Returned(req, Response(FALSE, "Job not found")))}

\* update_job up to the session.execute of manage_job_metadata.
update_job_call(js, md, req) ==
    LET job == find_job_by_id(get_jobs(js), req.id) IN
    IF job # None
    THEN {Step(l, md, [req EXCEPT !.pc = "execute", !.engine = TRUE]) :
             l \in reschedule(js, job, req.arg)}
    ELSE {Step(js, md, Returned(req, Response(FALSE, "Job not found")))}

\* Variant of delete_job_call: scheduler.remove_job is not called, only the row
\* is deleted.
delete_job_call_row_only(js, md, req) ==
    LET job == find_job_by_id(get_jobs(js), req.id) IN
    IF job # None
    THEN {Step(js, md, [req EXCEPT !.pc = "execute", !.engine = TRUE])}
    ELSE {Step(js, md, Returned(req, Response(FALSE, "Job not found")))}

\* delete_job up to the session.execute of manage_job_metadata.
delete_job_call(js, md, req) ==
    LET job == find_job_by_id(get_jobs(js), req.id) IN
    IF job # None
    THEN {Step(remove_job(js, req.id), md,
               [req EXCEPT !.pc = "execute", !.engine = TRUE])}
    ELSE {Step(js, md, Returned(req, Response(FALSE, "Job not found")))}

\* get_all_jobs up to the session.execute for the first job of
\* scheduler.get_jobs(), a list the loop keeps iterating.
get_all_jobs_call(js, md, req) ==
    LET seen == get_jobs(js) IN
    IF seen = <<>>
    THEN {Step(js, md,
               Returned(req, Response(TRUE, "Jobs successfully retrieved.")))}
    ELSE {Step(js, md, [req EXCEPT !.pc = "rows", !.seen = seen])}

\* manage_job_metadata from its session.execute to its session.commit: the row
\* is loaded and, for an update, assigned to; None raises in setattr and in
\* session.delete.
manage_job_metadata_execute(js, md, up, req) ==
    IF ~up THEN {Step(js, md, Returned(req, Raised("OperationalError")))}
    ELSE
      LET job_metadata == select_first(md, req.id) IN
      IF job_metadata = NoRow
      THEN {Step(js, md,
                 Returned(req, Raised(IF req.op = "update"
                                      THEN "AttributeError"
                                      ELSE "UnmappedInstanceError")))}
      ELSE {Step(js, md, [req EXCEPT !.pc = "commit", !.row = job_metadata])}

\* Variant of manage_job_metadata_commit: the commit sends nothing to the table.
manage_job_metadata_commit_unflushed(js, md, up, req) ==
    {Step(js, md,
          Returned(req, Response(TRUE, IF req.op = "update"
                                       THEN "Job updated successfully"
                                       ELSE "Job deleted successfully")))}

\* session.commit() of manage_job_metadata and the return of the handler. An
\* update flushes the attributes that differ from the loaded ones to the row of
\* that key, and raises when the row is gone; a delete removes the row of that
\* key.
manage_job_metadata_commit(js, md, up, req) ==
    IF ~up THEN {Step(js, md, Returned(req, Raised("OperationalError")))}
    ELSE
      LET now == select_first(md, req.id)
          kwargs == [time_interval |-> req.arg]
      IN
      IF req.op = "update" THEN
          IF setattrs(req.row, kwargs) = req.row
          THEN {Step(js, md,
                     Returned(req, Response(TRUE, "Job updated successfully")))}
          ELSE IF now = NoRow
          THEN {Step(js, md, Returned(req, Raised("StaleDataError")))}
          ELSE {Step(js, (md \ {now}) \cup {setattrs(now, kwargs)},
                     Returned([req EXCEPT !.wrote = TRUE],
                              Response(TRUE, "Job updated successfully")))}
      ELSE {Step(js, md \ {r \in md : r.job_id = req.id},
                 Returned([req EXCEPT !.wrote = TRUE],
                          Response(TRUE, "Job deleted successfully")))}

\* Variant of get_all_jobs_row: the listing writes the run state of the job
\* into the enabled column of the row it reads.
get_all_jobs_row_enabling(js, md, up, req) ==
    IF ~up THEN {Step(js, md, Returned(req, Raised("OperationalError")))}
    ELSE
      LET job == Head(req.seen)
          job_metadata == select_first(md, job.id)
      IN
      IF job_metadata = NoRow
      THEN {Step(js, md, Returned(req, Raised("AttributeError")))}
      ELSE
        LET synced == [job_metadata EXCEPT !.enabled = ~job.paused]
            entries == Append(req.entries,
                              [id |-> job.id, name |-> job.name,
                               time_interval |-> synced.time_interval,
                               enabled |-> synced.enabled])
            more == [req EXCEPT !.seen = Tail(req.seen), !.entries = entries]
            written == (md \ {job_metadata}) \cup {synced}
        IN  IF Tail(req.seen) = <<>>
            THEN {Step(js, written,
                       Returned(more, Response(TRUE, "Jobs successfully retrieved.")))}
            ELSE {Step(js, written, more)}

\* One turn of the loop of get_all_jobs: the row of the next job is read and
\* its entry appended; after the last job the response is returned.
get_all_jobs_row(js, md, up, req) ==
    IF ~up THEN {Step(js, md, Returned(req, Raised("OperationalError")))}
    ELSE
      LET job == Head(req.seen)
          job_metadata == select_first(md, job.id)
      IN
      IF job_metadata = NoRow
      THEN {Step(js, md, Returned(req, Raised("AttributeError")))}
      ELSE
        LET entries == Append(req.entries,
                              [id |-> job.id, name |-> job.name,
                               time_interval |-> job_metadata.time_interval,
                               enabled |-> job_metadata.enabled])
            more == [req EXCEPT !.seen = Tail(req.seen), !.entries = entries]
        IN  IF Tail(req.seen) = <<>>
            THEN {Step(js, md,
                       Returned(more, Response(TRUE, "Jobs successfully retrieved.")))}
            ELSE {Step(js, md, more)}

\* ---------------------------------------------------------------- run times
\* The scheduler runs each job at the run times of its interval trigger. The
\* handlers act on it through job.resume(), job.pause(), job.reschedule() and
\* scheduler.remove_job(); the firing itself is the scheduler's.

\* No time: the next run time of a paused job, the start of a job never fired.
NoTime == -1

Timing == [start_date |-> start_date, next_run_time |-> next_run_time]

\* ceil(a / b) for b # 0, as int(ceil(...)) computes it.
ceil(a, b) == IF b > 0 THEN 0 - ((0 - a) \div b) ELSE 0 - (a \div (0 - b))

\* trigger.get_next_fire_time(None, now) of an interval trigger: its first run
\* time while that is ahead, else the first run time of its grid that is not
\* before now (now itself when now is on the grid). A negative interval
\* yields a time that is not after now.
get_next_fire_time(first, interval, now) ==
    IF first > now THEN first
    ELSE first + interval * ceil(now - first, interval)

\* job.resume(): the next run time is computed anew from the job's trigger,
\* whether or not the job was paused.
resumed(t, job, now) ==
    [t EXCEPT !.next_run_time[job.id] =
                 get_next_fire_time(t.start_date[job.id], job.interval, now)]

\* job.pause(): the job has no next run time.
paused(t, job) == [t EXCEPT !.next_run_time[job.id] = NoTime]

\* job.reschedule(trigger="interval", minutes=m): a trigger created now, first
\* run one interval from now, and the next run time computed from it.
rescheduled(t, job, minutes, now) ==
    LET first == now + IntervalTrigger(minutes) IN
    [t EXCEPT !.start_date[job.id] = first,
              !.next_run_time[job.id] =
                 get_next_fire_time(first, IntervalTrigger(minutes), now)]

\* Variant of removed: the trigger of the removed job is left armed.
removed_left_armed(t, job_id) == t

\* scheduler.remove_job(job_id): nothing is due for the id any more.
removed(t, job_id) ==
    [t EXCEPT !.start_date[job_id] = 0, !.next_run_time[job_id] = NoTime]

\* ------------------------------------------------------------ state machine
\* Requests are served on one event loop. A call runs alone from one await to
\* the next, and other calls (and the scheduler's firings) run while it is
\* suspended at session.execute or session.commit. Every action below is one
\* such stretch of one handler.

\* Bootstrap: every boot job is registered with an interval and has its
\* metadata row. A job is Scheduled with enabled = true, or (the job store and
\* the table outlive the process) Paused with enabled = false.
BootStates ==
    [BootJobs -> [minutes : BootIntervals, paused : BOOLEAN]]

BootLists(boot) ==
    {l \in [1..Cardinality(BootJobs) ->
              {Job(j, boot[j].minutes, boot[j].paused) : j \in BootJobs}] :
        Ids(l) = BootJobs /\ PausedLast(l)}

Reqs == 1..MaxReqs

\* A request slot no call has been made in. preJobs and preMetadata are the
\* job list and the table as they were when the call was made (kept for the
\* call made last); up tells
\* whether the database answered every await of the call (for a call that
\* never awaits it: whether it was reachable at the call).
IdleReq ==
    [op |-> "none", id |-> "", arg |-> 0, pc |-> "idle", seen |-> <<>>,
     row |-> NoRow, entries |-> <<>>, result |-> Response(TRUE, ""),
     overlap |-> FALSE, engine |-> FALSE, wrote |-> FALSE,
     preJobs |-> <<>>, preMetadata |-> {}, up |-> TRUE]

\* The state after bootstrap with the rows of the jobs in have present.
Boot(boot, have) ==
    /\ inflight = [r \in Reqs |-> IdleReq]
    /\ clock = 0
    /\ start_date = [j \in JobIds |->
                       IF j \in BootJobs THEN IntervalTrigger(boot[j].minutes)
                       ELSE 0]
    /\ next_run_time = [j \in JobIds |->
                          IF j \in BootJobs /\ ~boot[j].paused
                          THEN IntervalTrigger(boot[j].minutes) ELSE NoTime]
    /\ instances = [j \in JobIds |-> 0]
    /\ starts = [j \in JobIds |-> 0]
    /\ last_start = [j \in JobIds |-> NoTime]
    /\ failed = {}
    /\ skipped = {}
    /\ stalled = FALSE
    /\ jobs \in BootLists(boot)
    /\ metadata = {JobMetadata(j, boot[j].minutes, ~boot[j].paused) : j \in have}
    /\ storeUp = TRUE
    /\ lastToggle = [j \in JobIds |->
                        IF j \in BootJobs /\ boot[j].paused THEN "pause" ELSE "none"]
    /\ lastInterval = [j \in JobIds |->
                        IF j \in BootJobs THEN boot[j].minutes ELSE 0]
    /\ okOnly = [j \in JobIds |-> "none"]
    /\ unretried = {}

Init == \E boot \in BootStates : Boot(boot, BootJobs)

\* Bootstrap over a table that lacks the row of at least one registered job
\* (the table is durable and is written apart from the scheduler).
InitMissingRow ==
    \E boot \in BootStates : \E have \in SUBSET BootJobs :
        have # BootJobs /\ Boot(boot, have)

\* Bootstrap of a fresh deployment: every boot job is Scheduled (a Paused job
\* comes from pause_job).
InitFiring ==
    \E boot \in {b \in BootStates : \A j \in BootJobs : ~b[j].paused} :
        Boot(boot, BootJobs)

FullSuccess(result) == ~result.raised /\ result.success

Suspended(r) == inflight[r].pc \notin {"idle", "done"}

\* The call in slot r runs up to its next await (or to its end), leaving o and
\* the run times t; the other calls stay where they are. Calls that are
\* suspended while another one starts have overlapped with it. A call that
\* ends is entered in the record of the commands made so far.
Advance(r, o, starting, t) ==
    LET req == [o.req EXCEPT
                  !.overlap = o.req.overlap
                              \/ (starting /\ \E p \in Reqs : Suspended(p)),
                  !.up = IF starting
                         THEN (o.req.pc # "done" \/ storeUp)
                         ELSE o.req.up /\ storeUp]
        ended == req.pc = "done"
        cmd == [op |-> req.op, id |-> req.id, arg |-> req.arg]
    IN
    /\ jobs' = o.jobs
    /\ metadata' = o.metadata
    /\ start_date' = t.start_date
    /\ next_run_time' = t.next_run_time
    /\ inflight' =
          [q \in Reqs |->
              IF q = r THEN req
              ELSE IF starting
              THEN [inflight[q] EXCEPT !.overlap = @ \/ Suspended(q),
                                       !.preJobs = <<>>,
                                       !.preMetadata = {}]
              ELSE inflight[q]]
    /\ lastToggle' =
          IF ended /\ req.op \in {"start", "pause"} /\ FullSuccess(req.result)
          THEN [lastToggle EXCEPT ![req.id] = req.op] ELSE lastToggle
    /\ lastInterval' =
          IF ended /\ req.op = "update" /\ FullSuccess(req.result)
          THEN [lastInterval EXCEPT ![req.id] = req.arg] ELSE lastInterval
    /\ okOnly' =
          IF ~ended \/ req.op = "list" THEN okOnly
          ELSE [okOnly EXCEPT ![req.id] =
                   IF /\ req.op \in {"start", "pause", "update"}
                      /\ FullSuccess(req.result)
                      /\ okOnly[req.id] # "tainted"
                   THEN "ok" ELSE "tainted"]
    /\ unretried' =
          IF ~ended \/ req.op = "list" THEN unretried
          ELSE IF req.result.raised THEN unretried \cup {cmd}
          ELSE IF req.up THEN unretried \ {cmd}
          ELSE unretried
    /\ UNCHANGED <<storeUp, clock, instances, starts, last_start, failed,
                   skipped, stalled>>

\* The next free slot takes the request.
Free(r) ==
    /\ inflight[r].pc = "idle"
    /\ \A q \in Reqs : q < r => inflight[q].pc # "idle"

\* The locals of a call as it is made.
Call(op, job_id, arg) ==
    [IdleReq EXCEPT !.op = op, !.id = job_id, !.arg = arg,
                    !.preJobs = jobs, !.preMetadata = metadata]

\* get_all_jobs up to its first await (line 80).
CallGetAllJobs(r) ==
    /\ Free(r)
    /\ \E o \in get_all_jobs_call(jobs, metadata, Call("list", "", 0)) :
          Advance(r, o, TRUE, Timing)

\* start_job, whole: it has no await.
CallStartJob(r, job_id) ==
    /\ Free(r)
    /\ LET job == find_job_by_id(get_jobs(jobs), job_id) IN
       \E o \in start_job_call(jobs, metadata, Call("start", job_id, 0)) :
          Advance(r, o, TRUE,
                  IF job # None THEN resumed(Timing, job, clock) ELSE Timing)

\* pause_job, whole: it has no await.
CallPauseJob(r, job_id) ==
    /\ Free(r)
    /\ LET job == find_job_by_id(get_jobs(jobs), job_id) IN
       \E o \in pause_job_call(jobs, metadata, Call("pause", job_id, 0)) :
          Advance(r, o, TRUE,
                  IF job # None THEN paused(Timing, job) ELSE Timing)

\* update_job up to the first await of manage_job_metadata (line 50).
CallUpdateJob(r, job_id, time_interval) ==
    /\ Free(r)
    /\ LET job == find_job_by_id(get_jobs(jobs), job_id) IN
       \E o \in update_job_call(jobs, metadata,
                                 Call("update", job_id, time_interval)) :
          Advance(r, o, TRUE,
                  IF o.req.engine
                  THEN rescheduled(Timing, job, time_interval, clock)
                  ELSE Timing)

\* delete_job up to the first await of manage_job_metadata (line 50).
CallDeleteJob(r, job_id) ==
    /\ Free(r)
    /\ \E o \in delete_job_call(jobs, metadata, Call("delete", job_id, 0)) :
          Advance(r, o, TRUE,
                  IF o.req.engine THEN removed(Timing, job_id) ELSE Timing)

\* manage_job_metadata from session.execute (line 50) to session.commit.
Execute(r) ==
    /\ inflight[r].pc = "execute"
    /\ \E o \in manage_job_metadata_execute(jobs, metadata, storeUp, inflight[r]) :
          Advance(r, o, FALSE, Timing)

\* manage_job_metadata from session.commit (line 56 / 59) to the handler's
\* return.
Commit(r) ==
    /\ inflight[r].pc = "commit"
    /\ \E o \in manage_job_metadata_commit(jobs, metadata, storeUp, inflight[r]) :
          Advance(r, o, FALSE, Timing)

\* One turn of the loop of get_all_jobs, from one session.execute to the next.
ReadRow(r) ==
    /\ inflight[r].pc = "rows"
    /\ \E o \in get_all_jobs_row(jobs, metadata, storeUp, inflight[r]) :
          Advance(r, o, FALSE, Timing)

\* The database becomes unreachable, or reachable again (while a call is
\* still to come or to go on: nothing observes it after the last one).
StoreOutage ==
    /\ \E r \in Reqs : inflight[r].pc # "done"
    /\ storeUp
    /\ storeUp' = FALSE
    /\ UNCHANGED <<jobs, metadata, lastToggle, lastInterval, okOnly,
                   unretried, inflight, firingVars>>

StoreRecovery ==
    /\ \E r \in Reqs : inflight[r].pc # "done"
    /\ ~storeUp
    /\ storeUp' = TRUE
    /\ UNCHANGED <<jobs, metadata, lastToggle, lastInterval, okOnly,
                   unretried, inflight, firingVars>>

\* The handlers of scheduler_router, interleaved at their awaits.
NextConcurrent ==
    \E r \in Reqs :
        \/ CallGetAllJobs(r)
        \/ \E job_id \in JobIds : CallStartJob(r, job_id)
        \/ \E job_id \in JobIds : CallPauseJob(r, job_id)
        \/ \E job_id \in JobIds : \E time_interval \in TimeIntervals :
              CallUpdateJob(r, job_id, time_interval)
        \/ \E job_id \in JobIds : CallDeleteJob(r, job_id)
        \/ Execute(r)
        \/ Commit(r)
        \/ ReadRow(r)

Next ==
    \/ NextConcurrent
    \/ StoreOutage
    \/ StoreRecovery

\* The handlers over a database that may become unreachable.
Spec == Init /\ [][Next]_vars

\* The same over a table with a missing row.
SpecMissingRow == InitMissingRow /\ [][Next]_vars

\* The handlers with the database reachable throughout.
SpecConcurrent == Init /\ [][NextConcurrent]_vars

\* -------------------------------------------------------------------- firing

\* The job is registered and its next run time has come.
Due(j) ==
    /\ j \in Ids(jobs)
    /\ next_run_time[j] # NoTime
    /\ next_run_time[j] <= clock

\* Variant of can_run: the running firings of the job are not counted.
can_run_uncounted(running) == TRUE

\* A firing is started only while fewer than max_instances (one) of the job
\* are running.
can_run(running) == running < 1

\* The run time after the one served at now.
following_run_time(j) ==
    LET interval == jobs[Index(jobs, j)].interval IN
    next_run_time[j]
      + interval * (((clock - next_run_time[j]) \div interval) + 1)

Unfired == <<jobs, metadata, storeUp, lastToggle, lastInterval, okOnly,
             unretried, inflight>>

\* A due job is handed to a worker and its next run time is moved on.
Fire(j) ==
    /\ ~stalled
    /\ Due(j)
    /\ jobs[Index(jobs, j)].interval > 0
    /\ starts[j] < MaxStarts
    /\ can_run(instances[j])
    /\ instances' = [instances EXCEPT ![j] = @ + 1]
    /\ starts' = [starts EXCEPT ![j] = @ + 1]
    /\ last_start' = [last_start EXCEPT ![j] = clock]
    /\ next_run_time' = [next_run_time EXCEPT ![j] = following_run_time(j)]
    /\ UNCHANGED <<clock, start_date, failed, skipped, stalled>>
    /\ UNCHANGED Unfired

\* A due job whose earlier firing is still running: the run is skipped (one
\* skipped run per job is followed).
Skip(j) ==
    /\ ~stalled
    /\ Due(j)
    /\ jobs[Index(jobs, j)].interval > 0
    /\ ~can_run(instances[j])
    /\ j \notin skipped
    /\ skipped' = skipped \cup {j}
    /\ next_run_time' = [next_run_time EXCEPT ![j] = following_run_time(j)]
    /\ UNCHANGED <<clock, start_date, instances, starts, last_start,
                   failed, stalled>>
    /\ UNCHANGED Unfired

\* A due job whose trigger has a negative interval: the run times to serve
\* are collected by stepping the trigger until it passes now, which a trigger
\* stepping backwards never does.
Stall(j) ==
    /\ ~stalled
    /\ Due(j)
    /\ jobs[Index(jobs, j)].interval < 0
    /\ stalled' = TRUE
    /\ UNCHANGED <<clock, start_date, next_run_time, instances, starts,
                   last_start, failed, skipped>>
    /\ UNCHANGED Unfired

\* Variant of job_error: a job whose body raised is taken off the scheduler.
job_error_deregisters(js, job_id) ==
    IF job_id \in Ids(js) THEN remove_job(js, job_id) ELSE js

\* The jobs of the scheduler after the body of job_id raised: the error is
\* logged and reported, the jobs are as they were.
job_error(js, job_id) == js

\* The body of a running firing returns, or raises.
Finish(j, ok) ==
    /\ instances[j] > 0
    /\ instances' = [instances EXCEPT ![j] = @ - 1]
    /\ failed' = IF ok THEN failed \ {j} ELSE failed \cup {j}
    /\ jobs' = IF ok THEN jobs ELSE job_error(jobs, j)
    /\ UNCHANGED <<clock, start_date, next_run_time, starts, last_start,
                   skipped, stalled>>
    /\ UNCHANGED <<metadata, storeUp, lastToggle, lastInterval, okOnly,
                   unretried, inflight>>

\* The instants the clock may move to: the earliest coming run time, or a
\* step short of it.
Instants ==
    LET coming == {next_run_time[j] : j \in {i \in Ids(jobs) :
                                               next_run_time[i] > clock}}
    IN  {t \in coming \cup {clock + TickStep} :
            /\ t <= MaxTime
            /\ stalled \/ \A c \in coming : t <= c}

\* Time passes, never past a run time that has not been served.
Tick ==
    /\ stalled \/ \A j \in JobIds : ~Due(j)
    /\ \E t \in Instants : clock' = t
    /\ UNCHANGED <<start_date, next_run_time, instances, starts, last_start,
                   failed, skipped, stalled>>
    /\ UNCHANGED Unfired

\* The mutating handlers, await by await, and the scheduler's firing.
NextFiring ==
    \/ \E r \in Reqs :
          \/ \E job_id \in BootJobs : CallStartJob(r, job_id)
          \/ \E job_id \in BootJobs : CallPauseJob(r, job_id)
          \/ \E job_id \in BootJobs : \E time_interval \in FiringIntervals :
                CallUpdateJob(r, job_id, time_interval)
          \/ \E job_id \in BootJobs : CallDeleteJob(r, job_id)
          \/ Execute(r)
          \/ Commit(r)
    \/ \E j \in BootJobs : Fire(j)
    \/ \E j \in BootJobs : Skip(j)
    \/ \E j \in BootJobs : Stall(j)
    \/ \E j \in BootJobs : Finish(j, TRUE)
    \/ \E j \in BootJobs : Finish(j, FALSE)
    \/ Tick

\* The handlers and the firing of the jobs, with the database reachable.
SpecFiring == InitFiring /\ [][NextFiring]_vars

\* The scheduler wakes at every run time and serves the jobs that are due: a
\* due job is not left unserved for ever. Nothing makes a body return.
FairSpecFiring ==
    /\ SpecFiring
    /\ \A j \in BootJobs :
          WF_vars(Fire(j)) /\ WF_vars(Skip(j)) /\ WF_vars(Stall(j))

\* ------------------------------------------------------------- observations

\* Engine.find(id): the registered job with that id, by index rather than scan.
JobOf(js, job_id) ==
    IF job_id \in Ids(js) THEN js[Index(js, job_id)] ELSE None

Registered(js, job_id) == job_id \in Ids(js)

\* Store row of an id (NoRow when there is none).
RowOf(md, job_id) == select_first(md, job_id)

NotFound == Response(FALSE, "Job not found")

\* No command.
NoCmd ==
    [op |-> "none", id |-> "", arg |-> 0, result |-> Response(TRUE, ""),
     listing |-> <<>>, preJobs |-> <<>>, preMetadata |-> {},
     preStoreUp |-> TRUE, overlap |-> FALSE]

\* The slots calls have been made in, in the order of the calls.
Issued == {r \in Reqs : inflight[r].pc # "idle"}

\* The command of slot r once it has ended: its arguments, its result, the
\* state it was called in, whether the database answered it and whether it
\* overlapped another call.
Cmd(r) ==
    IF r \in Issued /\ inflight[r].pc = "done"
    THEN [op |-> inflight[r].op, id |-> inflight[r].id, arg |-> inflight[r].arg,
          result |-> inflight[r].result, listing |-> inflight[r].entries,
          preJobs |-> inflight[r].preJobs,
          preMetadata |-> inflight[r].preMetadata,
          preStoreUp |-> inflight[r].up, overlap |-> inflight[r].overlap]
    ELSE NoCmd

\* The command called last, once it has ended, and the one called before it.
\* When the last command overlapped no other call, the state it was called in
\* is the state the command before it left, and the present jobs and rows
\* are those it left itself.
last == Cmd(Cardinality(Issued))
prevCmd == IF last = NoCmd THEN NoCmd ELSE Cmd(Cardinality(Issued) - 1)

\* The last command was op, on a job registered when it was called, and no
\* other call was in flight while it ran.
LastOnRegistered(op) ==
    last.op = op /\ ~last.overlap /\ Registered(last.preJobs, last.id)

\* The last command was op, on an id not registered when it was called, and no
\* other call was in flight while it ran.
LastOnUnknown(op) ==
    last.op = op /\ ~last.overlap /\ ~Registered(last.preJobs, last.id)

\* ------------------------------------------------------------------- claims

\* C1: for every registered id, after a sequence of start / pause / update
\* calls on it that each reported full success, the Store's enabled flag is
\* true exactly when the Engine state is Scheduled, and the Store's interval
\* (minutes) is the Engine's interval.
C1_SuccessKeepsStoreInSync ==
    \A id \in JobIds :
        (okOnly[id] = "ok" /\ Registered(jobs, id)) =>
            /\ RowOf(metadata, id) # NoRow
            /\ RowOf(metadata, id).enabled = ~JobOf(jobs, id).paused
            /\ RowOf(metadata, id).time_interval * 60 = JobOf(jobs, id).interval

\* C2: updateInterval with minutes <= 0 on a registered job does not report
\* success and leaves the job's Engine interval and run state and its Store
\* row as they were.
C2_NonPositiveIntervalRejected ==
    (LastOnRegistered("update") /\ last.arg <= 0) =>
        /\ ~FullSuccess(last.result)
        /\ JobOf(jobs, last.id) = JobOf(last.preJobs, last.id)
        /\ RowOf(metadata, last.id) = RowOf(last.preMetadata, last.id)

\* C3: deleteJob on an id not registered in the Engine reports success, not
\* "Job not found" (deletion is idempotent), and changes neither Engine nor
\* Store.
C3_DeleteUnknownReportsSuccess ==
    LastOnUnknown("delete") =>
        /\ FullSuccess(last.result)
        /\ last.result.message # "Job not found"
        /\ jobs = last.preJobs
        /\ metadata = last.preMetadata

\* C4: startJob, pauseJob and updateInterval on an id not registered in the
\* Engine return success = false with message "Job not found" and leave the
\* Engine's job list and every Store row unchanged.
C4_UnknownIdReportsNotFound ==
    (LastOnUnknown("start") \/ LastOnUnknown("pause") \/ LastOnUnknown("update")) =>
        /\ last.result = NotFound
        /\ jobs = last.preJobs
        /\ metadata = last.preMetadata

\* updateInterval was called on the never-registered id while jobs and rows
\* of other ids exist.
C4_Witness ==
    /\ LastOnUnknown("update")
    /\ last.id \in GhostJobs
    /\ Len(last.preJobs) = Cardinality(BootJobs)
    /\ last.preMetadata # {}

\* C5: after startJob reports success for a registered id, the job is
\* Scheduled in the Engine and its Store row has enabled = true.
C5_StartSchedulesAndEnables ==
    (LastOnRegistered("start") /\ FullSuccess(last.result)) =>
        /\ JobOf(jobs, last.id) # None
        /\ ~JobOf(jobs, last.id).paused
        /\ RowOf(metadata, last.id) # NoRow
        /\ RowOf(metadata, last.id).enabled

\* C6: after pauseJob reports success for a registered id, the job is Paused
\* in the Engine and its Store row has enabled = false.
C6_PausePausesAndDisables ==
    (LastOnRegistered("pause") /\ FullSuccess(last.result)) =>
        /\ JobOf(jobs, last.id) # None
        /\ JobOf(jobs, last.id).paused
        /\ RowOf(metadata, last.id) # NoRow
        /\ ~RowOf(metadata, last.id).enabled

\* C7: after updateInterval(id, minutes) with minutes > 0 reports success for
\* a registered id, the Engine's interval of id is minutes (kept in seconds)
\* and the Store row of id has time_interval = minutes.
C7_UpdateSetsBothIntervals ==
    (LastOnRegistered("update") /\ last.arg > 0 /\ FullSuccess(last.result)) =>
        /\ JobOf(jobs, last.id) # None
        /\ JobOf(jobs, last.id).interval = last.arg * 60
        /\ RowOf(metadata, last.id) # NoRow
        /\ RowOf(metadata, last.id).time_interval = last.arg

\* A successful updateInterval changed the interval of a registered job from
\* its boot value to another positive one.
C7_Witness ==
    /\ LastOnRegistered("update")
    /\ last.arg > 0
    /\ FullSuccess(last.result)
    /\ JobOf(last.preJobs, last.id).interval # last.arg * 60
    /\ RowOf(last.preMetadata, last.id).time_interval # last.arg

\* C8: after deleteJob returns its success response for a registered id, the
\* id is absent from the Engine (find_job_by_id returns None) and the Store
\* has no row with that job id.
C8_DeleteRemovesJobAndRow ==
    (LastOnRegistered("delete") /\ FullSuccess(last.result)) =>
        /\ find_job_by_id(get_jobs(jobs), last.id) = None
        /\ {r \in metadata : r.job_id = last.id} = {}

\* A successful deleteJob removed a job that was not the first of the list
\* and whose row existed, while another job stays registered.
C8_Witness ==
    /\ LastOnRegistered("delete")
    /\ FullSuccess(last.result)
    /\ Head(last.preJobs).id # last.id
    /\ RowOf(last.preMetadata, last.id) # NoRow
    /\ jobs # <<>>

\* C9: pauseJob called twice in immediate succession on a registered id: the
\* second call reports success and leaves the Engine's job list and the Store
\* as the first call left them.
C9_PauseTwiceIsIdempotent ==
    (/\ LastOnRegistered("pause")
     /\ prevCmd.op = "pause"
     /\ prevCmd.id = last.id
     /\ FullSuccess(prevCmd.result)) =>
        /\ FullSuccess(last.result)
        /\ jobs = last.preJobs
        /\ metadata = last.preMetadata

\* The second of two successive pauseJob calls on a registered id has
\* returned, and the job is Paused.
C9_Witness ==
    /\ LastOnRegistered("pause")
    /\ prevCmd.op = "pause"
    /\ prevCmd.id = last.id
    /\ FullSuccess(prevCmd.result)
    /\ JobOf(jobs, last.id).paused

\* C10: listJobs returns exactly one entry per job registered in the Engine;
\* an entry's enabled is false exactly when the last successful start / pause
\* command on the job was a pause, and its interval is that of the last
\* successful updateInterval (the registration interval if there was none).
C10_ListingReflectsLastCommands ==
    (last.op = "list" /\ ~last.overlap /\ FullSuccess(last.result)) =>
        /\ Len(last.listing) = Len(jobs)
        /\ {last.listing[i].id : i \in 1..Len(last.listing)} = Ids(jobs)
        /\ \A i \in 1..Len(last.listing) :
              LET entry == last.listing[i] IN
              /\ entry.enabled = (lastToggle[entry.id] # "pause")
              /\ entry.time_interval = lastInterval[entry.id]

\* C11: with the Store reachable and the metadata row of a live Engine job
\* missing, listJobs still succeeds: it returns one entry per Engine job, and
\* every job that has a row is shown with its own metadata.
C11_ListingSurvivesMissingRow ==
    (/\ last.op = "list"
     /\ ~last.overlap
     /\ last.preStoreUp
     /\ \E id \in Ids(last.preJobs) : RowOf(last.preMetadata, id) = NoRow) =>
        /\ FullSuccess(last.result)
        /\ Len(last.listing) = Len(last.preJobs)
        /\ \A id \in Ids(last.preJobs) :
              RowOf(last.preMetadata, id) # NoRow =>
                 \E i \in 1..Len(last.listing) :
                    /\ last.listing[i].id = id
                    /\ last.listing[i].time_interval =
                          RowOf(last.preMetadata, id).time_interval
                    /\ last.listing[i].enabled =
                          RowOf(last.preMetadata, id).enabled

\* The last command was start / pause / update on a registered job, run with
\* no other call in flight while the Store could not be reached.
MutationDuringOutage ==
    /\ last.op \in {"start", "pause", "update"}
    /\ ~last.overlap
    /\ Registered(last.preJobs, last.id)
    /\ ~last.preStoreUp

\* C12: a mutating command that succeeds in the Engine while the Store cannot
\* be updated returns a partial-failure status: a result that is neither full
\* success nor "Job not found".
C12_StoreFailureReportedAsPartial ==
    MutationDuringOutage =>
        /\ ~last.result.raised
        /\ ~last.result.success
        /\ last.result.message # "Job not found"

\* C13: when the Store update of a mutating command fails after the Engine
\* call, the Engine mutation is kept (the job is resumed / paused /
\* rescheduled as requested) and the Store rows keep their previous values.
C13_EngineMutationKeptOnStoreFailure ==
    MutationDuringOutage =>
        LET job == JobOf(jobs, last.id) IN
        /\ job # None
        /\ metadata = last.preMetadata
        /\ last.op = "start" => ~job.paused
        /\ last.op = "pause" => job.paused
        /\ last.op = "update" =>
              /\ last.result.raised
              /\ job.interval = IntervalTrigger(last.arg)

\* updateInterval to a new value raised in its Store step (the database was
\* unreachable) on a registered job.
C13_Witness ==
    /\ MutationDuringOutage
    /\ last.op = "update"
    /\ last.result.raised
    /\ last.arg = 30
    /\ JobOf(last.preJobs, last.id).interval # IntervalTrigger(30)

\* The call in slot r is a mutating command on its job id.
Mutating(r) == inflight[r].op \in {"start", "pause", "update", "delete"}

\* The call in slot r has made its Engine access and not yet its last Store
\* access: it is suspended in manage_job_metadata.
BetweenEngineAndStore(r) == inflight[r].pc \in {"execute", "commit"}

\* C14: once a pauseJob(id) and a deleteJob(id) on the same id have both
\* completed, whatever the interleaving of their steps, either the job is
\* absent from both the Engine and the Store, or it is Paused in the Engine
\* with a Store row whose enabled is false; never in one and not in the other.
\* (No other command on that id is still in flight.)
C14_PauseDeleteEndState ==
    \A p, d \in Reqs :
        ( /\ inflight[p].op = "pause" /\ inflight[p].pc = "done"
          /\ inflight[d].op = "delete" /\ inflight[d].pc = "done"
          /\ inflight[p].id = inflight[d].id
          /\ \A q \in Reqs : inflight[q].id = inflight[p].id => ~Suspended(q) )
        => LET job_id == inflight[p].id IN
           \/ /\ ~Registered(jobs, job_id)
              /\ RowOf(metadata, job_id) = NoRow
           \/ /\ Registered(jobs, job_id)
              /\ JobOf(jobs, job_id).paused
              /\ RowOf(metadata, job_id) # NoRow
              /\ ~RowOf(metadata, job_id).enabled

\* A pauseJob(id) was issued on a job registered at bootstrap while the
\* deleteJob(id) of the same id was suspended in its Store step, and both have
\* completed.
C14_Witness ==
    \E p, d \in Reqs :
        /\ inflight[p].op = "pause" /\ inflight[p].pc = "done"
        /\ inflight[d].op = "delete" /\ inflight[d].pc = "done"
        /\ inflight[p].id = inflight[d].id
        /\ inflight[p].id \in BootJobs
        /\ inflight[p].overlap /\ inflight[d].overlap
        /\ FullSuccess(inflight[d].result)

\* C15: no two mutating commands on the same job id are at once between their
\* first Engine access and their last Store access.
C15_SameIdCommandsSerialized ==
    \A r1, r2 \in Reqs :
        ( /\ r1 # r2
          /\ Mutating(r1) /\ Mutating(r2)
          /\ inflight[r1].id = inflight[r2].id )
        => ~(BetweenEngineAndStore(r1) /\ BetweenEngineAndStore(r2))

\* C16: a listJobs call that ran while a mutating command was in flight
\* completes without failing.
C16_ListingSurvivesConcurrentMutation ==
    \A r \in Reqs :
        ( /\ inflight[r].op = "list" /\ inflight[r].pc = "done"
          /\ inflight[r].overlap
          /\ \E m \in Reqs : Mutating(m) /\ inflight[m].overlap )
        => FullSuccess(inflight[r].result)

\* The jobs of a list, whatever their order.
JobSet(js) == {js[i] : i \in 1..Len(js)}

\* The last two commands were the same mutating command with the same
\* arguments, run one after the other (no call overlapped either).
Repeated ==
    /\ last.op \in {"start", "pause", "update", "delete"}
    /\ ~last.overlap /\ ~prevCmd.overlap
    /\ prevCmd.op = last.op
    /\ prevCmd.id = last.id
    /\ prevCmd.arg = last.arg

\* C17: each of the four mutating commands, executed twice in succession with
\* the same arguments, leaves the Engine and Store state of one execution, and
\* the second execution reports the status of the first.
C17_RepeatSameStateSameStatus ==
    Repeated =>
        /\ JobSet(jobs) = JobSet(last.preJobs)
        /\ metadata = last.preMetadata
        /\ last.result.success = prevCmd.result.success
        /\ last.result.raised = prevCmd.result.raised

\* The last command retries, with the Store reachable, the command before it,
\* which had raised in its Store step while the Store was unreachable (no
\* call overlapped either).
RetryAfterOutage ==
    /\ last.op \in {"update", "delete"}
    /\ ~last.overlap /\ ~prevCmd.overlap
    /\ prevCmd.op = last.op
    /\ prevCmd.id = last.id
    /\ prevCmd.arg = last.arg
    /\ prevCmd.result.raised
    /\ ~prevCmd.preStoreUp
    /\ last.preStoreUp

\* C18: retrying a command that failed in its Store step, once the Store is
\* available again, reports success and restores consistency: for
\* updateInterval (positive minutes) the Store interval is the Engine's, for
\* deleteJob the Store row of the id is gone.
C18_RetryRestoresConsistency ==
    (RetryAfterOutage /\ (last.op = "update" => last.arg > 0)) =>
        /\ FullSuccess(last.result)
        /\ last.op = "update" =>
              RowOf(metadata, last.id).time_interval * 60
                 = JobOf(jobs, last.id).interval
        /\ last.op = "delete" => RowOf(metadata, last.id) = NoRow

\* No control command is in the middle of executing.
Quiescent == \A r \in Reqs : ~Suspended(r)

\* C19: in every state where no control command is in the middle of
\* executing, every job registered in the Engine has exactly one Store row
\* with its id.
C19_EveryJobHasOneRow ==
    Quiescent =>
        \A id \in Ids(jobs) : Cardinality({r \in metadata : r.job_id = id}) = 1

\* A successful deleteJob of one job followed an updateInterval of another
\* job that stays registered.
C19_Witness ==
    /\ Quiescent
    /\ last.op = "delete"
    /\ ~last.overlap
    /\ FullSuccess(last.result)
    /\ prevCmd.op = "update"
    /\ FullSuccess(prevCmd.result)
    /\ Registered(jobs, prevCmd.id)

\* C20: whenever no command is in the middle of executing and every command
\* that failed in its Store step has been retried with the Store reachable,
\* every Store row belongs to a job registered in the Engine.
C20_NoOrphanRows ==
    (Quiescent /\ unretried = {}) =>
        \A r \in metadata : Registered(jobs, r.job_id)

\* C21: a command writes the Store only after its Engine call (reschedule /
\* remove) has been made, and a command whose Engine lookup failed writes
\* nothing: a command waiting for the Store has made its Engine call and has
\* not written yet.
C21_EngineBeforeStore ==
    \A r \in Reqs :
        /\ inflight[r].wrote => inflight[r].engine
        /\ inflight[r].result.message = "Job not found" => ~inflight[r].wrote
        /\ ( /\ inflight[r].op \in {"update", "delete"}
             /\ inflight[r].pc \in {"execute", "commit"} )
           => inflight[r].engine /\ ~inflight[r].wrote

\* An updateInterval to a new value has written the Store, and a deleteJob
\* has either written it or answered 'Job not found'.
C21_Witness ==
    \E u, d \in Reqs :
        /\ inflight[u].op = "update" /\ inflight[u].wrote
        /\ inflight[u].pc = "done"
        /\ inflight[d].op = "delete" /\ inflight[d].pc = "done"
        /\ \/ inflight[d].wrote
           \/ inflight[d].result.message = "Job not found"

\* C28: a successful updateInterval(id, minutes) changes only the interval: the
\* job is Paused after it exactly when it was before, and the enabled column
\* of its Store row is what it was.
C28_UpdateKeepsRunState ==
    ( /\ LastOnRegistered("update")
      /\ last.arg > 0
      /\ FullSuccess(last.result) )
    => LET before == JobOf(last.preJobs, last.id)
           after == JobOf(jobs, last.id)
       IN  /\ after # None
           /\ after.paused = before.paused
           /\ RowOf(metadata, last.id) # NoRow
           /\ RowOf(metadata, last.id).enabled =
                 RowOf(last.preMetadata, last.id).enabled

\* The last command was a mutating one, run with no other call in flight.
LastMutating ==
    last.op \in {"start", "pause", "update", "delete"} /\ ~last.overlap

\* C29: a mutating command on job id A leaves every other job B as it was in
\* the Engine (registration, interval, run state) and in the Store (its row);
\* startJob and pauseJob also leave the interval of A as it was in both.
C29_OtherJobsUntouched ==
    LastMutating =>
        /\ \A b \in JobIds \ {last.id} :
              /\ JobOf(jobs, b) = JobOf(last.preJobs, b)
              /\ {r \in metadata : r.job_id = b}
                    = {r \in last.preMetadata : r.job_id = b}
        /\ last.op \in {"start", "pause"} =>
              /\ Registered(jobs, last.id) = Registered(last.preJobs, last.id)
              /\ Registered(jobs, last.id) =>
                    JobOf(jobs, last.id).interval
                      = JobOf(last.preJobs, last.id).interval
              /\ {r.time_interval : r \in {x \in metadata : x.job_id = last.id}}
                    = {r.time_interval :
                         r \in {x \in last.preMetadata : x.job_id = last.id}}

\* An updateInterval changed the interval and the row of one job while another
\* job was registered with its row.
C29_Witness ==
    /\ LastOnRegistered("update")
    /\ FullSuccess(last.result)
    /\ RowOf(metadata, last.id) # RowOf(last.preMetadata, last.id)
    /\ \E b \in JobIds \ {last.id} :
          Registered(jobs, b) /\ RowOf(metadata, b) # NoRow

\* C30: a listJobs call, whether it returns or raises, leaves the Engine's jobs
\* (set, intervals, run states) and every Store row as they were (no other
\* call ran meanwhile).
C30_ListingIsReadOnly ==
    (last.op = "list" /\ ~last.overlap) =>
        jobs = last.preJobs /\ metadata = last.preMetadata

\* A listing has returned whose entries include a paused job with a row that
\* still says enabled.
C30_Witness ==
    /\ last.op = "list"
    /\ ~last.overlap
    /\ FullSuccess(last.result)
    /\ \E i \in 1..Len(jobs) :
          jobs[i].paused /\ RowOf(metadata, jobs[i].id).enabled

\* C22: no two firings of one job run at once, also when a firing outlasts the
\* job's interval; firings of different jobs may.
C22_FiringsOfOneJobNeverOverlap ==
    \A j \in JobIds : instances[j] <= 1

\* Firings of two jobs are running together, and a run of one of them came
\* due while its firing was still running and was skipped.
C22_Witness ==
    \E j, k \in JobIds :
        /\ j # k
        /\ instances[j] = 1 /\ instances[k] = 1
        /\ j \in skipped

PausedByCommand(j) ==
    \/ last.op = "pause" /\ last.id = j /\ FullSuccess(last.result)
    \/ /\ prevCmd.op = "pause" /\ prevCmd.id = j
       /\ FullSuccess(prevCmd.result)
       /\ ~(last.op = "start" /\ last.id = j /\ FullSuccess(last.result))
       /\ ~(last.op = "update" /\ last.arg <= 0)

\* C24: from a successful pauseJob(id) until the next successful startJob(id)
\* no firing of id begins.
C24_PausedJobNeverFires ==
    [][\A j \in JobIds : PausedByCommand(j) => starts'[j] = starts[j]]_vars

\* C25: when the body of a firing raises, the jobs of the Engine (registration,
\* interval, run state), their run times, the Store rows and the calls in
\* flight with their results are as before; and a command raises only when it
\* ran while another command was in flight, never for a firing.
C25_FiringErrorChangesNothing ==
    /\ [](\A r \in Reqs : inflight[r].result.raised => inflight[r].overlap)
    /\ [][\A j \in JobIds :
             (instances'[j] < instances[j] /\ j \in failed')
             => /\ jobs' = jobs
                /\ metadata' = metadata
                /\ next_run_time' = next_run_time
                /\ start_date' = start_date
                /\ inflight' = inflight]_vars

\* The first firing of a job raised and its second firing is running.
C25_Witness ==
    \E j \in BootJobs :
        /\ j \in failed
        /\ starts[j] = 2
        /\ instances[j] = 1

\* The call in slot r is a deleteJob(j) that has returned success.
DeletedBy(r, j) ==
    /\ inflight[r].op = "delete" /\ inflight[r].id = j
    /\ inflight[r].pc = "done"
    /\ FullSuccess(inflight[r].result)

\* A deleteJob(j) has returned success.
Deleted(j) == \E r \in Reqs : DeletedBy(r, j)

\* C27: after a successful deleteJob(id) no firing of id starts, and a
\* startJob, pauseJob or updateInterval on id called after it answers 'Job not
\* found'.
C27_RemovalIsPermanent ==
    /\ [](\A d, c \in Reqs :
             ( /\ d < c
               /\ DeletedBy(d, inflight[c].id)
               /\ inflight[c].op \in {"start", "pause", "update"}
               /\ inflight[c].pc = "done" )
             => inflight[c].result = NotFound)
    /\ [][\A j \in JobIds : Deleted(j) => starts'[j] = starts[j]]_vars

\* A job was deleted before its first run time, a startJob on it has answered
\* 'Job not found', and the clock has since passed that run time, the other job
\* having fired.
C27_Witness ==
    \E j, k \in BootJobs :
        /\ prevCmd.op = "delete" /\ prevCmd.id = j
        /\ FullSuccess(prevCmd.result)
        /\ last.op = "start" /\ last.id = j
        /\ last.result = NotFound
        /\ starts[j] = 0
        /\ k # j /\ starts[k] > 0

\* C26: a registered job with a positive interval that is due and has no
\* firing running eventually starts a firing (unless a command takes its run
\* time away first), whatever the other jobs are doing.
C26_DueJobEventuallyFires ==
    \A j \in BootJobs : \A n \in 0..(MaxStarts - 1) :
        ( /\ Due(j)
          /\ JobOf(jobs, j).interval > 0
          /\ instances[j] = 0
          /\ starts[j] = n )
        ~> (starts[j] > n \/ ~Due(j))

\* C31: once two updateInterval calls on the same registered id with different
\* positive values, issued concurrently, have both completed with success (and
\* no other command on that id is in flight), the interval of the Store row
\* equals the interval of the Engine job, whatever the interleaving.
C31_ConcurrentUpdatesAgree ==
    \A a, b \in Reqs :
        ( /\ a # b
          /\ inflight[a].op = "update" /\ inflight[a].pc = "done"
          /\ inflight[b].op = "update" /\ inflight[b].pc = "done"
          /\ inflight[a].id = inflight[b].id
          /\ inflight[a].arg > 0 /\ inflight[b].arg > 0
          /\ inflight[a].arg # inflight[b].arg
          /\ inflight[a].overlap /\ inflight[b].overlap
          /\ FullSuccess(inflight[a].result)
          /\ FullSuccess(inflight[b].result)
          /\ \A q \in Reqs : inflight[q].id = inflight[a].id => ~Suspended(q)
          /\ Registered(jobs, inflight[a].id) )
        => LET job_id == inflight[a].id IN
           /\ RowOf(metadata, job_id) # NoRow
           /\ JobOf(jobs, job_id).interval
                 = IntervalTrigger(RowOf(metadata, job_id).time_interval)

\* C32: once an updateInterval(id, m) and a deleteJob(id) on the same registered
\* id, issued concurrently, have both completed (and no other command on that
\* id is in flight), neither has raised, and the job is either absent from both
\* the Engine and the Store or present in both with interval m.
C32_UpdateDeleteEndState ==
    \A u, d \in Reqs :
        ( /\ inflight[u].op = "update" /\ inflight[u].pc = "done"
          /\ inflight[d].op = "delete" /\ inflight[d].pc = "done"
          /\ inflight[u].id = inflight[d].id
          /\ inflight[u].id \in BootJobs
          /\ inflight[u].overlap /\ inflight[d].overlap
          /\ \A q \in Reqs : inflight[q].id = inflight[u].id => ~Suspended(q) )
        => LET job_id == inflight[u].id
               m == inflight[u].arg
           IN
           /\ ~inflight[u].result.raised
           /\ ~inflight[d].result.raised
           /\ \/ /\ ~Registered(jobs, job_id)
                 /\ RowOf(metadata, job_id) = NoRow
              \/ /\ Registered(jobs, job_id)
                 /\ JobOf(jobs, job_id).interval = IntervalTrigger(m)
                 /\ RowOf(metadata, job_id) # NoRow
                 /\ RowOf(metadata, job_id).time_interval = m

\* C33: in every reachable state the interval of every registered job is a
\* positive whole number of minutes and the time_interval of every Store row is
\* a positive number of minutes, whatever integers the commands were given.
C33_IntervalsStayValid ==
    /\ \A i \in 1..Len(jobs) :
          jobs[i].interval > 0 /\ jobs[i].interval % 60 = 0
    /\ \A row \in metadata : row.time_interval > 0

\* C34: deleteJob(id) on a job registered in the Engine that has no Store row
\* (database reachable) reports success, removes the job from the Engine and
\* leaves the Store as it was: a missing row is not an error.
C34_DeleteWithoutRowSucceeds ==
    ( /\ LastOnRegistered("delete")
      /\ last.preStoreUp
      /\ RowOf(last.preMetadata, last.id) = NoRow )
    => /\ FullSuccess(last.result)
       /\ ~Registered(jobs, last.id)
       /\ metadata = last.preMetadata

\* C35: the Store update of updateInterval is an upsert: updateInterval(id, m)
\* with m positive on a job registered in the Engine (database reachable)
\* succeeds and leaves a Store row of id with interval m, also when no row of
\* id existed before the call.
C35_UpdateIsUpsert ==
    ( /\ LastOnRegistered("update")
      /\ last.preStoreUp
      /\ last.arg > 0 )
    => /\ FullSuccess(last.result)
       /\ RowOf(metadata, last.id) # NoRow
       /\ RowOf(metadata, last.id).time_interval = last.arg

\* C36: find_job_by_id agrees with an indexed lookup by id on every job list
\* the scheduler reaches: it returns the job whose id is job_id when one is
\* registered, None exactly when none is, and a command that only looked the
\* id up (and answered 'Job not found') leaves the Engine as it was.
C36_FindIsIndexedLookup ==
    /\ \A job_id \in JobIds :
          /\ find_job_by_id(get_jobs(jobs), job_id) = JobOf(jobs, job_id)
          /\ (find_job_by_id(get_jobs(jobs), job_id) = None)
                <=> ~Registered(jobs, job_id)
          /\ Registered(jobs, job_id)
                => find_job_by_id(get_jobs(jobs), job_id).id = job_id
    /\ (LastMutating /\ last.result = NotFound) =>
          /\ jobs = last.preJobs
          /\ find_job_by_id(get_jobs(last.preJobs), last.id) = None

\* A command on an id that was never registered answered 'Job not found', and
\* the next command found its job at the end of a list of several jobs and
\* succeeded.
C36_Witness ==
    /\ prevCmd.id \in GhostJobs
    /\ prevCmd.result = NotFound
    /\ LastMutating
    /\ Len(last.preJobs) > 1
    /\ Registered(last.preJobs, last.id)
    /\ Index(last.preJobs, last.id) = Len(last.preJobs)
    /\ FullSuccess(last.result)

=============================================================================
